---- MODULE Spec2Model ----
(***************************************************************************)
(* fastkg: KnowledgeGraph.save_parquet / KnowledgeGraph.load_parquet       *)
(* (src/00_core.ipynb).  A text is a sequence of one-character strings, a  *)
(* term is a record of kind/value/datatype/language, a triple is a         *)
(* 3-tuple of terms and a row is a 3-tuple of texts (subject, predicate,   *)
(* object).                                                                *)
(***************************************************************************)
EXTENDS Integers, Sequences, FiniteSets, TLC

\* ---------------------------------------------------------------- bounds
MaxLen == 3
MaxRows == 3
MaxBatch == 4

\* ------------------------------------------------------------ characters
DQ == "\""
SQ == "'"
BS == "\\"
Char == {"<", ">", "_", ":", DQ, SQ, BS, "a"}
Texts == UNION {[1..n -> Char] : n \in 0..MaxLen}

\* absent datatype / language (Python None)
None == <<"None">>

\* ----------------------------------------------------------- rdflib terms
URIRef(v) == [kind |-> "URIRef", value |-> v, datatype |-> None, language |-> None]
BNode(v) == [kind |-> "BNode", value |-> v, datatype |-> None, language |-> None]
LiteralOf(v, dt, lang) == [kind |-> "Literal", value |-> v, datatype |-> dt, language |-> lang]
Literal(v) == LiteralOf(v, None, None)

\* ------------------------------------------------------- str operations
startswith(s, p) == Len(s) >= Len(p) /\ SubSeq(s, 1, Len(p)) = p
endswith(s, p) == Len(s) >= Len(p) /\ SubSeq(s, Len(s) - Len(p) + 1, Len(s)) = p

RECURSIVE lstrip(_, _)
lstrip(s, chars) ==
    IF s # <<>> /\ Head(s) \in chars THEN lstrip(Tail(s), chars) ELSE s

RECURSIVE rstrip(_, _)
rstrip(s, chars) ==
    IF s # <<>> /\ s[Len(s)] \in chars
    THEN rstrip(SubSeq(s, 1, Len(s) - 1), chars)
    ELSE s

strip(s, chars) == rstrip(lstrip(s, chars), chars)

\* ----------------------------------------------------- encoding: o.n3()
\* Literal quoting of rdflib: backslash and double quote are escaped
RECURSIVE quote_encode(_)
quote_encode(s) ==
    IF s = <<>> THEN <<>>
    ELSE (IF Head(s) = BS THEN <<BS, BS>>
          ELSE IF Head(s) = DQ THEN <<BS, DQ>>
          ELSE <<Head(s)>>) \o quote_encode(Tail(s))

n3(o) ==
    CASE o.kind = "URIRef" -> <<"<">> \o o.value \o <<">">>
      [] o.kind = "BNode" -> <<"_", ":">> \o o.value
      [] o.kind = "Literal" ->
            <<DQ>> \o quote_encode(o.value) \o <<DQ>> \o
            (IF o.language # None THEN <<"@">> \o o.language
             ELSE IF o.datatype # None
                  THEN <<"^", "^", "<">> \o o.datatype \o <<">">>
                  ELSE <<>>)

encode_row(triple) == <<n3(triple[1]), n3(triple[2]), n3(triple[3])>>

\* ------------------------------------------ decoding: load_parquet fields
parse_subject_strip(s_str) ==
    IF startswith(s_str, <<"<">>) /\ endswith(s_str, <<">">>)
    THEN URIRef(SubSeq(s_str, 2, Len(s_str) - 1))
    ELSE IF startswith(s_str, <<"_", ":">>)
    THEN BNode(SubSeq(s_str, 3, Len(s_str)))
    ELSE Literal(strip(s_str, {DQ, SQ}))

parse_subject_off(s_str) ==
    IF startswith(s_str, <<"<">>) /\ endswith(s_str, <<">">>)
    THEN URIRef(SubSeq(s_str, 2, Len(s_str) - 1))
    ELSE IF startswith(s_str, <<"_", ":">>)
    THEN BNode(SubSeq(s_str, 2, Len(s_str)))
    ELSE Literal(s_str)

parse_subject(s_str) ==
    IF startswith(s_str, <<"<">>) /\ endswith(s_str, <<">">>)
    THEN URIRef(SubSeq(s_str, 2, Len(s_str) - 1))
    ELSE IF startswith(s_str, <<"_", ":">>)
    THEN BNode(SubSeq(s_str, 3, Len(s_str)))
    ELSE Literal(s_str)

parse_predicate_lit(p_str) ==
    IF startswith(p_str, <<"<">>) /\ endswith(p_str, <<">">>)
    THEN URIRef(SubSeq(p_str, 2, Len(p_str) - 1))
    ELSE Literal(p_str)

parse_predicate_bnode(p_str) ==
    IF startswith(p_str, <<"<">>) /\ endswith(p_str, <<">">>)
    THEN URIRef(SubSeq(p_str, 2, Len(p_str) - 1))
    ELSE IF startswith(p_str, <<"_", ":">>)
    THEN BNode(SubSeq(p_str, 3, Len(p_str)))
    ELSE URIRef(p_str)

parse_predicate(p_str) ==
    IF startswith(p_str, <<"<">>) /\ endswith(p_str, <<">">>)
    THEN URIRef(SubSeq(p_str, 2, Len(p_str) - 1))
    ELSE URIRef(p_str)

parse_object_slice(o_str) ==
    IF startswith(o_str, <<"<">>) /\ endswith(o_str, <<">">>)
    THEN URIRef(SubSeq(o_str, 2, Len(o_str)))
    ELSE IF startswith(o_str, <<"_", ":">>)
    THEN BNode(SubSeq(o_str, 3, Len(o_str)))
    ELSE IF startswith(o_str, <<DQ>>) \/ startswith(o_str, <<SQ>>)
    THEN Literal(strip(o_str, {DQ, SQ}))
    ELSE Literal(o_str)

parse_object_nostrip(o_str) ==
    IF startswith(o_str, <<"<">>) /\ endswith(o_str, <<">">>)
    THEN URIRef(SubSeq(o_str, 2, Len(o_str) - 1))
    ELSE IF startswith(o_str, <<"_", ":">>)
    THEN BNode(SubSeq(o_str, 3, Len(o_str)))
    ELSE Literal(o_str)

parse_object(o_str) ==
    IF startswith(o_str, <<"<">>) /\ endswith(o_str, <<">">>)
    THEN URIRef(SubSeq(o_str, 2, Len(o_str) - 1))
    ELSE IF startswith(o_str, <<"_", ":">>)
    THEN BNode(SubSeq(o_str, 3, Len(o_str)))
    ELSE IF startswith(o_str, <<DQ>>) \/ startswith(o_str, <<SQ>>)
    THEN Literal(strip(o_str, {DQ, SQ}))
    ELSE Literal(o_str)

decode_row(r) == <<parse_subject(r[1]), parse_predicate(r[2]), parse_object(r[3])>>

\* ------------------------------------------------------------ the state
VARIABLES
    cpc, pos, triple, row, decoded,
    pc, df, batch_size, total, start, end, it, triples, g,
    g0, before, decodedLog, insertedLog, calls,
    kg, batches, thrown, err

codecVars == <<cpc, pos, triple, row, decoded>>
loadVars == <<pc, df, batch_size, total, start, end, it, triples, g,
              g0, before, decodedLog, insertedLog, calls,
              kg, batches, thrown, err>>
vars == <<cpc, pos, triple, row, decoded,
          pc, df, batch_size, total, start, end, it, triples, g,
          g0, before, decodedLog, insertedLog, calls,
          kg, batches, thrown, err>>

NoTriple == <<>>
NoRow == <<>>
\* no source graph (the file exists already), no exception
NoGraph == {NoTriple}
NoError == "none"

\* ------------------------------------------------- inputs of the codec
hello == <<"h", "e", "l", "l", "o">>
en == <<"e", "n">>
HeSaidHi == <<"H", "e", " ", "s", "a", "i", "d", " ", DQ, "h", "i", DQ>>
xsd_date == <<"x", "s", "d", "#", "d", "a", "t", "e">>

Lexicals == Texts \cup {hello, HeSaidHi}
IRIs == {URIRef(v) : v \in Texts}
BNodes == {BNode(v) : v \in Texts}
Literals ==
    {Literal(v) : v \in Lexicals}
    \cup {LiteralOf(v, xsd_date, None) : v \in Lexicals}
    \cup {LiteralOf(v, None, en) : v \in Lexicals}

\* terms a triple can carry at position p (a predicate is an IRI)
InputTerms(p) == IF p = 2 THEN IRIs ELSE IRIs \cup BNodes \cup Literals

FillTerm == URIRef(<<"a">>)
FillTexts == {<<>>, <<"<", "a", ">">>}

TripleAt(p, t) == [i \in 1..3 |-> IF i = p THEN t ELSE FillTerm]
RowAt(p, x, f1, f2) ==
    CASE p = 1 -> <<x, f1, f2>>
      [] p = 2 -> <<f1, x, f2>>
      [] p = 3 -> <<f1, f2, x>>

IdleLoad ==
    /\ pc = "off" /\ df = <<>> /\ batch_size = 1 /\ total = 0
    /\ start = 0 /\ end = 0 /\ it = 0 /\ triples = <<>> /\ g = {}
    /\ g0 = {} /\ before = {} /\ decodedLog = <<>> /\ insertedLog = <<>>
    /\ calls = <<>>
    /\ kg = NoGraph /\ batches = <<>> /\ thrown = NoError /\ err = NoError

InitCodec ==
    /\ pos \in 1..3
    /\ decoded = NoTriple
    /\ \/ /\ cpc = "triple"
          /\ \E t \in InputTerms(pos) : triple = TripleAt(pos, t)
          /\ row = NoRow
       \/ /\ cpc = "row"
          /\ triple = NoTriple
          /\ \E x \in Texts, f1 \in FillTexts, f2 \in FillTexts :
                row = RowAt(pos, x, f1, f2)
    /\ IdleLoad

\* save_parquet, one triple: the row of the n3() texts
EncodeTriple ==
    /\ cpc = "triple"
    /\ row' = encode_row(triple)
    /\ cpc' = "row"
    /\ UNCHANGED <<pos, triple, decoded>>
    /\ UNCHANGED loadVars

\* load_parquet, one row: the three fields parsed into a triple
DecodeRow ==
    /\ cpc = "row"
    /\ decoded' = decode_row(row)
    /\ cpc' = "done"
    /\ UNCHANGED <<pos, triple, row>>
    /\ UNCHANGED loadVars

NextCodec == EncodeTriple \/ DecodeRow

SpecCodec == InitCodec /\ [][NextCodec]_vars

\* =============================================================== loader
\* --------------------------------------------------- load_parquet helpers
min(a, b) == IF a < b THEN a ELSE b

\* end = min(start + batch_size, total)
batch_end_inclusive(s, k, n) == min(s + k - 1, n)

batch_end(s, k, n) == min(s + k, n)

\* triples.append((s, p, o))
append_front(l, t) == <<t>> \o l

append(l, t) == Append(l, t)

\* self.g.add((s, p, o)): an rdflib Graph is a set of triples
add_replace(graph, t) == {t}

add(graph, t) == graph \cup {t}

\* ------------------------------------------------ inputs of load_parquet
Row1 == encode_row(<<URIRef(<<"a">>), URIRef(<<"a">>), Literal(<<"a">>)>>)
Row2 == encode_row(<<BNode(<<"a">>), URIRef(<<"a">>), URIRef(<<"a">>)>>)
Row3 == <<<<>>, <<"a">>, <<SQ, "a">>>>
SampleRows == {Row1, Row2, Row3}
Frames == UNION {[1..n -> SampleRows] : n \in 0..MaxRows}
SampleGraphs == {{}, {decode_row(Row1), <<FillTerm, FillTerm, FillTerm>>}}

IdleCodec ==
    /\ cpc = "off" /\ pos = 1 /\ triple = NoTriple /\ row = NoRow
    /\ decoded = NoTriple

\* the graph of the Quick Start example and one more triple
ex_John == <<"e", "x", ":", "J", "o", "h", "n">>
ex_Jane == <<"e", "x", ":", "J", "a", "n", "e">>
ex_Person == <<"e", "x", ":", "P", "e", "r", "s", "o", "n">>
ex_name == <<"e", "x", ":", "n", "a", "m", "e">>
ex_knows == <<"e", "x", ":", "k", "n", "o", "w", "s">>
rdf_type == <<"r", "d", "f", ":", "t", "y", "p", "e">>
JohnDoe == <<"J", "o", "h", "n", " ", "D", "o", "e">>
John1 == <<URIRef(ex_John), URIRef(rdf_type), URIRef(ex_Person)>>
John2 == <<URIRef(ex_John), URIRef(ex_name), Literal(JohnDoe)>>
John3 == <<URIRef(ex_John), URIRef(ex_knows), URIRef(ex_Jane)>>
JohnGraph == {John1, John2, John3}
John4 == <<URIRef(ex_John), URIRef(ex_name), Literal(JohnDoe \o <<SQ>>)>>
TriplePool == JohnGraph \cup {John4}
SourceGraphs == {G \in SUBSET TriplePool : Cardinality(G) <= MaxRows}

\* the orders in which iterating a graph can yield its triples
Orders(G) ==
    {o \in [1..Cardinality(G) -> G] :
        \A i, j \in 1..Cardinality(G) : o[i] = o[j] => i = j}

\* failures of pd.read_parquet / DataFrame.to_parquet
Errors == {"FileNotFoundError", "ArrowNotImplementedError"}

Init ==
    /\ IdleCodec
    /\ \/ /\ pc = "idle"
          /\ df \in Frames
          /\ g0 \in SampleGraphs
          /\ kg = NoGraph
       \/ /\ pc = "new"
          /\ df = <<>>
          /\ g0 = {}
          /\ kg \in SourceGraphs
    /\ g = g0
    /\ before = g0
    /\ batch_size = 1 /\ total = 0 /\ start = 0 /\ end = 0 /\ it = 0
    /\ triples = <<>>
    /\ decodedLog = <<>> /\ insertedLog = <<>>
    /\ calls = <<>>
    /\ batches = <<>>
    /\ thrown = NoError /\ err = NoError

\* kg.save_parquet(path): one row of n3() texts per triple, in the order
\* the graph yields its triples, written by df.to_parquet
save_parquet ==
    /\ pc = "new"
    /\ \E o \in Orders(kg) : df' = [i \in 1..Len(o) |-> encode_row(o[i])]
    /\ pc' = "idle"
    /\ UNCHANGED <<batch_size, total, start, end, it, triples, g, g0,
                   before, decodedLog, insertedLog, calls>>
    /\ UNCHANGED <<kg, batches, thrown, err>>
    /\ UNCHANGED codecVars

\* df.to_parquet raises e: nothing catches it in save_parquet
SaveFails(e) ==
    /\ pc = "new"
    /\ thrown' = e
    /\ err' = e
    /\ pc' = "raised"
    /\ UNCHANGED <<df, batch_size, total, start, end, it, triples, g, g0,
                   before, decodedLog, insertedLog, calls>>
    /\ UNCHANGED <<kg, batches>>
    /\ UNCHANGED codecVars

\* pd.read_parquet raises e: the error is swallowed and self returned
LoadFails_masked(fresh, e) ==
    /\ pc = "idle" \/ (pc = "returned" /\ Len(calls) = 1)
    /\ g' = IF fresh THEN g0 ELSE g
    /\ before' = g'
    /\ decodedLog' = <<>> /\ insertedLog' = <<>>
    /\ batches' = <<>>
    /\ thrown' = e
    /\ err' = NoError
    /\ pc' = "raised"
    /\ UNCHANGED <<df, batch_size, total, start, end, it, triples, g0,
                   calls, kg>>
    /\ UNCHANGED codecVars

\* pd.read_parquet raises e: nothing catches it in load_parquet
LoadFails(fresh, e) ==
    /\ pc = "idle" \/ (pc = "returned" /\ Len(calls) = 1)
    /\ g' = IF fresh THEN g0 ELSE g
    /\ before' = g'
    /\ decodedLog' = <<>> /\ insertedLog' = <<>>
    /\ batches' = <<>>
    /\ thrown' = e
    /\ err' = e
    /\ pc' = "raised"
    /\ UNCHANGED <<df, batch_size, total, start, end, it, triples, g0,
                   calls, kg>>
    /\ UNCHANGED codecVars

\* kg.load_parquet(path, batch_size = k): df = read_parquet, total = len(df).
\* The file is loaded once and then once more, into a graph holding g0
\* again (fresh) or into the graph the first call returned.  The locals
\* end, row iterator and triples of a call are new.
Load(k, fresh) ==
    /\ pc = "idle" \/ (pc = "returned" /\ Len(calls) = 1)
    /\ batch_size' = k
    /\ g' = IF fresh THEN g0 ELSE g
    /\ before' = g'
    /\ total' = Len(df)
    /\ start' = 0
    /\ decodedLog' = <<>> /\ insertedLog' = <<>>
    /\ end' = 0 /\ it' = 0 /\ triples' = <<>>
    /\ batches' = <<>>
    /\ pc' = "loop"
    /\ UNCHANGED <<df, g0, calls>>
    /\ UNCHANGED <<kg, thrown, err>>
    /\ UNCHANGED codecVars

\* the next batch, the list of triples not emptied
BatchStart_keep ==
    /\ pc = "loop"
    /\ start < total
    /\ end' = batch_end(start, batch_size, total)
    /\ triples' = triples
    /\ it' = start
    /\ batches' = Append(batches, <<start, end'>>)
    /\ pc' = "decode"
    /\ UNCHANGED <<df, batch_size, total, start, g, g0, before,
                   decodedLog, insertedLog, calls>>
    /\ UNCHANGED <<kg, thrown, err>>
    /\ UNCHANGED codecVars

\* for start in range(0, total, batch_size): the next batch
BatchStart ==
    /\ pc = "loop"
    /\ start < total
    /\ end' = batch_end(start, batch_size, total)
    /\ triples' = <<>>
    /\ it' = start
    /\ batches' = Append(batches, <<start, end'>>)
    /\ pc' = "decode"
    /\ UNCHANGED <<df, batch_size, total, start, g, g0, before,
                   decodedLog, insertedLog, calls>>
    /\ UNCHANGED <<kg, thrown, err>>
    /\ UNCHANGED codecVars

\* for _, row in batch.iterrows(): one row of df.iloc[start:end] is parsed
DecodeNext ==
    /\ pc = "decode"
    /\ it < end
    /\ triples' = append(triples, decode_row(df[it + 1]))
    /\ decodedLog' = Append(decodedLog, decode_row(df[it + 1]))
    /\ it' = it + 1
    /\ UNCHANGED <<pc, df, batch_size, total, start, end, g, g0, before,
                   insertedLog, calls>>
    /\ UNCHANGED <<kg, batches, thrown, err>>
    /\ UNCHANGED codecVars

\* the batch is exhausted: the insert loop starts
DecodeDone ==
    /\ pc = "decode"
    /\ it >= end
    /\ it' = 0
    /\ pc' = "insert"
    /\ UNCHANGED <<df, batch_size, total, start, end, triples, g, g0,
                   before, decodedLog, insertedLog, calls>>
    /\ UNCHANGED <<kg, batches, thrown, err>>
    /\ UNCHANGED codecVars

\* for s, p, o in triples: self.g.add((s, p, o))
InsertNext ==
    /\ pc = "insert"
    /\ it < Len(triples)
    /\ g' = add(g, triples[it + 1])
    /\ insertedLog' = Append(insertedLog, triples[it + 1])
    /\ it' = it + 1
    /\ UNCHANGED <<pc, df, batch_size, total, start, end, triples, g0,
                   before, decodedLog, calls>>
    /\ UNCHANGED <<kg, batches, thrown, err>>
    /\ UNCHANGED codecVars

\* the insert loop is exhausted: range() steps one row too far
InsertDone_skip ==
    /\ pc = "insert"
    /\ it >= Len(triples)
    /\ start' = start + batch_size + 1
    /\ pc' = "loop"
    /\ UNCHANGED <<df, batch_size, total, end, it, triples, g, g0, before,
                   decodedLog, insertedLog, calls>>
    /\ UNCHANGED <<kg, batches, thrown, err>>
    /\ UNCHANGED codecVars

\* the insert loop is exhausted: range() steps to the next start
InsertDone ==
    /\ pc = "insert"
    /\ it >= Len(triples)
    /\ start' = start + batch_size
    /\ pc' = "loop"
    /\ UNCHANGED <<df, batch_size, total, end, it, triples, g, g0, before,
                   decodedLog, insertedLog, calls>>
    /\ UNCHANGED <<kg, batches, thrown, err>>
    /\ UNCHANGED codecVars

\* range() is exhausted: return self
Return ==
    /\ pc = "loop"
    /\ start >= total
    /\ pc' = "returned"
    /\ calls' = Append(calls, [batch_size |-> batch_size,
                               before |-> before,
                               after |-> g,
                               decoded |-> decodedLog,
                               inserted |-> insertedLog])
    /\ UNCHANGED <<df, batch_size, total, start, end, it, triples, g, g0,
                   before, decodedLog, insertedLog>>
    /\ UNCHANGED <<kg, batches, thrown, err>>
    /\ UNCHANGED codecVars

Next ==
    \/ save_parquet
    \/ \E e \in Errors : SaveFails(e)
    \/ \E k \in 1..MaxBatch, fresh \in BOOLEAN : Load(k, fresh)
    \/ \E fresh \in BOOLEAN, e \in Errors : LoadFails(fresh, e)
    \/ BatchStart
    \/ DecodeNext
    \/ DecodeDone
    \/ InsertNext
    \/ InsertDone
    \/ Return

Spec == Init /\ [][Next]_vars

\* load_parquet is straight-line synchronous code: once called it keeps
\* running until it returns
Running == BatchStart \/ DecodeNext \/ DecodeDone \/ InsertNext \/ InsertDone \/ Return
SpecFair == Spec /\ WF_vars(Running)

\* ---------------------------------------------------------------- claims
\* C1: two completed calls on the same rows that started from the same
\* graph decoded the same sequence of triples and left the same graph,
\* whatever their batch sizes.
C1_BatchSizeInvariance ==
    \A i \in DOMAIN calls, j \in DOMAIN calls :
        calls[i].before = calls[j].before =>
            /\ calls[i].decoded = calls[j].decoded
            /\ calls[i].inserted = calls[j].inserted
            /\ calls[i].after = calls[j].after

C1_Witness ==
    /\ Len(df) = 3 /\ df[1] # df[2] /\ df[2] # df[3] /\ df[1] # df[3]
    /\ Len(calls) = 2
    /\ calls[1].batch_size = 2 /\ calls[2].batch_size = 4
    /\ calls[1].before = calls[2].before
    /\ calls[1].after # calls[1].before
    /\ Len(calls[2].decoded) = 3

\* C2: the triples inserted so far are the decodings of the first rows in
\* row order, and a completed call has decoded and inserted every row.
C2_OrderPreserved ==
    pc # "idle" =>
        /\ Len(insertedLog) <= Len(decodedLog)
        /\ Len(decodedLog) <= Len(df)
        /\ \A i \in 1..Len(decodedLog) : decodedLog[i] = decode_row(df[i])
        /\ \A i \in 1..Len(insertedLog) : insertedLog[i] = decode_row(df[i])
        /\ pc = "returned" =>
              /\ Len(decodedLog) = Len(df)
              /\ Len(insertedLog) = Len(df)

C2_Witness ==
    /\ pc = "returned" /\ batch_size = 2
    /\ df = <<Row3, Row1, Row2>>
    /\ insertedLog = <<decode_row(Row3), decode_row(Row1), decode_row(Row2)>>

\* ================================================================ codec
\* ---------------------------------------------------------------- claims
Encoded == cpc = "done" /\ triple # NoTriple
Raw == cpc = "done" /\ triple = NoTriple
HasAny(v, chars) == \E i \in 1..Len(v) : v[i] \in chars
IsTerm(t) ==
    /\ DOMAIN t = {"kind", "value", "datatype", "language"}
    /\ t.kind \in {"URIRef", "BNode", "Literal"}

C4_BNodeRoundTrip ==
    (/\ Encoded
     /\ pos \in {1, 3}
     /\ triple[pos].kind = "BNode"
     /\ ~startswith(triple[pos].value, <<"_", ":">>))
    => /\ row[pos] = <<"_", ":">> \o triple[pos].value
       /\ decoded[pos] = triple[pos]

C4_Witness ==
    /\ Encoded /\ pos = 1
    /\ triple[1] = BNode(<<"a", ">">>)
    /\ row[1] = <<"_", ":", "a", ">">>
    /\ decoded[1] = BNode(<<"a", ">">>)

\* C5: Literal('hello', language en) is encoded as "hello"@en and that
\* object field decodes to the plain Literal hello.
C5_LangLiteralPinned ==
    (Encoded /\ pos = 3 /\ triple[3] = LiteralOf(hello, None, en))
    => /\ row[3] = <<DQ>> \o hello \o <<DQ, "@">> \o en
       /\ decoded[3] = Literal(hello)

\* C6: decoding the encoding of a plain literal removes exactly one leading
\* and one trailing quote character of the field and nothing else.
C6_StripOuterOnly ==
    (/\ Encoded /\ pos = 3
     /\ triple[3].kind = "Literal"
     /\ triple[3].datatype = None /\ triple[3].language = None)
    => decoded[3] = Literal(SubSeq(row[3], 2, Len(row[3]) - 1))

\* C7: a literal with a datatype keeps its lexical value and its datatype
\* through encoding and decoding.
C7_DatatypePreserved ==
    (/\ Encoded /\ pos = 3
     /\ triple[3].kind = "Literal"
     /\ triple[3].datatype # None)
    => decoded[3] = triple[3]

\* C8: a subject field holding the encoding "x" of a plain literal without
\* quote characters decodes to Literal(x), as it does in the object position.
C8_SubjectLiteralRoundTrip ==
    (/\ Encoded /\ pos = 1
     /\ triple[1].kind = "Literal"
     /\ triple[1].datatype = None /\ triple[1].language = None
     /\ ~HasAny(triple[1].value, {DQ, SQ}))
    => /\ decoded[1] = Literal(triple[1].value)
       /\ decoded[1] = parse_object(row[1])

\* C9 (as stated): an empty field decodes, in each of the three positions,
\* to the Literal with empty lexical value.
C9_EmptyFieldLiteral ==
    (Raw /\ row[pos] = <<>>) => decoded[pos] = Literal(<<>>)

\* C9 (amended): an empty subject or object field decodes to the Literal
\* with empty lexical value, an empty predicate field to the IRI with empty
\* text; the row is decoded in every case.
C9_EmptyField ==
    /\ (cpc = "row" /\ row[pos] = <<>>) => ENABLED DecodeRow
    /\ (Raw /\ row[pos] = <<>>) =>
          /\ pos \in {1, 3} => decoded[pos] = Literal(<<>>)
          /\ pos = 2 => decoded[pos] = URIRef(<<>>)

C9_Witness ==
    /\ Raw /\ pos = 2 /\ row = <<<<"<", "a", ">">>, <<>>, <<>>>>
    /\ decoded = <<URIRef(<<"a">>), URIRef(<<>>), Literal(<<>>)>>

\* C10: every row is decoded to a triple of terms, and a subject or object
\* field that is neither <...>, nor _:..., nor starts with a quote decodes
\* to the Literal of the field text unchanged.
NoShape(x) ==
    /\ ~(startswith(x, <<"<">>) /\ endswith(x, <<">">>))
    /\ ~startswith(x, <<"_", ":">>)
    /\ ~startswith(x, <<DQ>>)
    /\ ~startswith(x, <<SQ>>)

C10_NeverRejects ==
    /\ cpc = "row" => ENABLED DecodeRow
    /\ cpc = "done" =>
          /\ Len(decoded) = 3
          /\ \A i \in 1..3 : IsTerm(decoded[i])
          /\ \A i \in {1, 3} :
                NoShape(row[i]) => decoded[i] = Literal(row[i])

C10_Witness ==
    /\ Raw /\ pos = 1 /\ row[1] = <<"<", "a", SQ>>
    /\ decoded[1] = Literal(<<"<", "a", SQ>>)

\* C11: the decoded predicate is an IRI: the enclosed text of a field of
\* the form <...>, the field text verbatim otherwise, also when the field
\* starts with _: or with a quote.
C11_PredicateIsIri ==
    cpc = "done" =>
        /\ decoded[2].kind = "URIRef"
        /\ decoded[2].datatype = None /\ decoded[2].language = None
        /\ (startswith(row[2], <<"<">>) /\ endswith(row[2], <<">">>))
              => decoded[2].value = SubSeq(row[2], 2, Len(row[2]) - 1)
        /\ ~(startswith(row[2], <<"<">>) /\ endswith(row[2], <<">">>))
              => decoded[2].value = row[2]

C11_Witness ==
    /\ Raw /\ pos = 2 /\ row[2] = <<"_", ":", "a">>
    /\ decoded[2] = URIRef(<<"_", ":", "a">>)

\* ======================================================= save and load
Range(q) == {q[i] : i \in DOMAIN q}
ceil_div(n, k) == (n + k - 1) \div k
InCall == pc \in {"loop", "decode", "insert", "returned"}

C13_CountPreserved ==
    kg # NoGraph =>
        \A i \in DOMAIN calls :
            calls[i].before = {} =>
                Cardinality(calls[i].after) = Cardinality(kg)

\* C14: when the reader or the writer raises, the caller gets that very
\* error, the destination graph is as it was when the call began with
\* nothing inserted, and the source graph and the file are untouched.
C14_ErrorsPropagate ==
    [][thrown' # NoError =>
          /\ thrown = NoError
          /\ pc' = "raised"
          /\ err' = thrown'
          /\ kg' = kg /\ df' = df
          /\ g' \in {g, g0} /\ g' = before'
          /\ pc # "new" => insertedLog' = <<>>
          /\ calls' = calls]_vars

C14_Witness ==
    /\ pc = "raised" /\ err = "FileNotFoundError"
    /\ Len(calls) = 1 /\ calls[1].after # g0
    /\ g = calls[1].after /\ before = g

\* C15: the triples decoded and not yet inserted are at most batch_size,
\* all of the current batch, and rows are decoded only when every triple
\* of the batches before is in the graph.
Pending ==
    IF pc = "decode" THEN triples
    ELSE IF pc = "insert" THEN SubSeq(triples, it + 1, Len(triples))
    ELSE <<>>

C15_BoundedBuffer ==
    InCall =>
        /\ Len(Pending) <= batch_size
        /\ Len(triples) <= batch_size
        /\ Len(Pending) = Len(decodedLog) - Len(insertedLog)
        /\ pc \in {"decode", "insert"} =>
              /\ Len(decodedLog) - Len(triples) = start
              /\ \A i \in 1..Len(triples) :
                    triples[i] = decode_row(df[start + i])
        /\ pc = "decode" =>
              /\ Len(insertedLog) = start
              /\ Range(SubSeq(decodedLog, 1, start)) \subseteq g

C15_Witness ==
    /\ pc = "insert" /\ batch_size = 2 /\ total = 3 /\ start = 0
    /\ Len(triples) = 2 /\ it = 1 /\ Len(Pending) = 1

\* C16: the batches are the ranges [0,k), [k,2k), ... cut at N: ceil(N/k)
\* of them, each but the last of k rows, the last of 1..k rows, every row
\* decoded once; no batch for N = 0, the graph unchanged; and every call
\* returns.
C16_Partition ==
    InCall =>
        /\ \A i \in DOMAIN batches :
              /\ batches[i][1] = (i - 1) * batch_size
              /\ batches[i][2] = min(i * batch_size, total)
              /\ batches[i][1] < batches[i][2]
              /\ i < ceil_div(total, batch_size) =>
                    batches[i][2] - batches[i][1] = batch_size
        /\ Len(batches) <= ceil_div(total, batch_size)
        /\ pc = "returned" =>
              /\ Len(batches) = ceil_div(total, batch_size)
              /\ Len(decodedLog) = total
              /\ total = Len(df)
              /\ total > 0 => batches[Len(batches)][2] = total
              /\ total = 0 => batches = <<>> /\ g = before
              /\ calls # <<>> /\ calls[Len(calls)].after = g

C16_PartitionTerminates ==
    /\ []C16_Partition
    /\ pc = "loop" ~> pc = "returned"

C16_Witness ==
    /\ pc = "returned" /\ total = 3 /\ batch_size = 2
    /\ batches = <<<<0, 2>>, <<2, 3>>>>

\* C17: a completed call leaves the graph it found united with the set of
\* the decoded triples, nothing is ever removed during a call, and loading
\* the same rows again into the resulting graph leaves it unchanged.
C17_AdditiveIdempotent ==
    /\ InCall => before \subseteq g /\ Range(insertedLog) \subseteq g
    /\ \A i \in DOMAIN calls :
          calls[i].after = calls[i].before \cup Range(calls[i].decoded)
    /\ (Len(calls) = 2 /\ calls[2].before = calls[1].after) =>
          calls[2].after = calls[1].after

C17_Witness ==
    /\ Len(calls) = 2 /\ calls[1].before # {}
    /\ calls[1].after # calls[1].before
    /\ calls[2].before = calls[1].after
    /\ calls[2].after = calls[1].after
    /\ Len(calls[2].inserted) = 3
    /\ Cardinality(calls[2].after) < 3 + Cardinality(calls[1].before)

====
